---------------------------- MODULE Spec2Model ----------------------------
(***************************************************************************)
(* carbonix: reconstruction of a project's sale state (price, supplies,    *)
(* whitelist, presale/sale boundaries, admins, mints) from the             *)
(* transactions of a contract, with the DataBase cache of the Explorer and *)
(* the staleness check of Project.check_update.                            *)
(*                                                                         *)
(* One contract address is modelled.  The remote indexer is the variable   *)
(* ledger; requests.get(api).json() is the operator Request.               *)
(***************************************************************************)
EXTENDS Integers, Sequences, FiniteSets, TLC

VARIABLES
    ledger,     \* the indexer: transactions it returns for the execute query
    database,   \* Explorer.__database, the in-memory DataBase dict
    file,       \* the DATA_BASE pickle on disk: [exists, content]
    backups,    \* contents of the files DATA_BASE was renamed to
    project,    \* the Project object's private fields, or NoProject
    last,       \* the operation that ran last and how it ended
    call        \* an Explorer.txs call followed page by page (SpecFetch)

vars == <<ledger, database, file, backups, project, last, call>>

(***************************************************************************)
(* Bounds of the model.                                                    *)
(***************************************************************************)
\* number of transactions on the ledger beyond the contract's configuration
MaxExtra == 2
\* number of transactions the indexer returns per page
PageSize == 4
\* bits of the significand of a float (a double has 53)
MantissaBits == 5

(***************************************************************************)
(* Transactions.  A Txn is modelled by the values of its properties:       *)
(* hash, height, sender, amount, unit and message (a mapping from method   *)
(* name to payload, so that Txn.methods = list(message) is its domain).    *)
(* Hashes are numbers ordered like the hex strings they stand for.         *)
(* A payload that is a JSON object carries kind "dict", any other JSON     *)
(* value kind "scalar".                                                    *)
(***************************************************************************)
Tx(hash, height, sender, amount, message) ==
    [hash |-> hash, height |-> height, sender |-> sender,
     amount |-> amount, unit |-> "ujuno", json |-> TRUE, message |-> message]

\* a transaction whose data holds braces but no JSON object between them:
\* json.loads raises in Txn.message, and so does Txn.methods
Undecoded(hash, height, sender) ==
    [hash |-> hash, height |-> height, sender |-> sender,
     amount |-> 0, unit |-> "ujuno", json |-> FALSE, message |-> <<>>]

Entry(address, nb_slots) == [address |-> address, nb_slots |-> nb_slots]

Toggle(enable) == [kind |-> "dict", enable |-> enable]

Scalar(value) == [kind |-> "scalar", value |-> value]

InstantiateTx ==
    Tx(10, 1, "juno1admin", 0, [name |-> Scalar("carbonix")])

\* the configuration every project of the dashboard has received
BaseTxs == <<
    Tx(21, 2, "juno1admin", 0,
       [update_price |-> [kind |-> "dict",
                          price |-> [amount |-> 100, denom |-> "ujuno"]]]),
    Tx(22, 2, "juno1admin", 0,
       [update_supply |-> [kind |-> "dict",
                           market_supply |-> 100, reserved_supply |-> 0]]),
    Tx(23, 2, "juno1admin", 0,
       [update_metadata |-> [kind |-> "dict",
                             metadata |-> [name |-> "Banegas Farm",
                                           description |-> "d1",
                                           image |-> "i1"]]]),
    Tx(24, 2, "juno1admin", 0, [max_buy_at_once |-> Scalar(5)]),
    Tx(41, 4, "juno1admin", 0, [pre_sell_mode |-> Toggle(TRUE)]),
    Tx(71, 7, "juno1admin", 0, [sell_mode |-> Toggle(TRUE)])
>>

\* the transactions that may or may not be on the ledger; the first is the
\* instantiating transaction when it also carries an execute message to the
\* contract, so that the execute query returns it as well
ExtraTxs == <<
    InstantiateTx,
    Tx(25, 2, "juno1owner", 0,
       [add_admin |-> [kind |-> "dict", address |-> "juno1bob"]]),
    Tx(32, 3, "juno1admin", 0,
       [add_to_whitelist |-> [kind |-> "dict",
            entries |-> <<Entry("juno1alice", 5), Entry("juno1bob", 3)>>]]),
    Tx(31, 3, "juno1admin", 0,
       [add_to_whitelist |-> [kind |-> "dict",
            entries |-> <<Entry("juno1dave", 4)>>]]),
    Tx(42, 4, "juno1admin", 0,
       [add_to_whitelist |-> [kind |-> "dict",
            entries |-> <<Entry("juno1alice", 2), Entry("juno1carol", 1)>>]]),
    Tx(53, 5, "juno1admin", 0,
       [add_to_whitelist |-> [kind |-> "dict",
            entries |-> <<Entry("juno1bob", 7), Entry("juno1dave", 7)>>]]),
    Tx(54, 5, "juno1carol", 500, [buy |-> [kind |-> "dict"]]),
    Undecoded(55, 5, "juno1mallory"),
    Tx(82, 8, "juno1admin", 0, [pre_sell_mode |-> Scalar(TRUE)]),
    Tx(83, 8, "juno1admin", 0,
       [update_supply |-> [kind |-> "dict",
                           market_supply |-> 160, reserved_supply |-> 10]]),
    Tx(84, 8, "juno1admin", 0, [sell_mode |-> Scalar(FALSE)]),
    Tx(86, 8, "juno1admin", 0,
       [update_price |-> [kind |-> "dict",
                          price |-> [amount |-> 50, denom |-> "ujuno"]]]),
    Tx(85, 8, "juno1admin", 0,
       [update_price |-> [kind |-> "dict",
                          price |-> [amount |-> 200, denom |-> "uatom"]]]),
    Tx(87, 8, "juno1admin", 0, [pre_sell_mode |-> Toggle(TRUE)]),
    Tx(95, 9, "juno1admin", 0, [pre_sell_mode |-> Toggle(FALSE)]),
    Tx(93, 9, "juno1admin", 0, [sell_mode |-> Toggle(FALSE)]),
    Tx(92, 9, "juno1dave", 350, [multi_buy |-> [kind |-> "dict", quantity |-> 3]]),
    Tx(91, 9, "juno1carol", 100, [buy |-> [kind |-> "dict"]]),
    Tx(94, 9, "juno1erin", 3300, [buy |-> [kind |-> "dict"]])
>>

Range(s) == {s[i] : i \in DOMAIN s}

Heights == {t.height : t \in {InstantiateTx} \cup Range(BaseTxs) \cup Range(ExtraTxs)}

Max(S) == CHOOSE x \in S : \A y \in S : y <= x

\* block time of a height, as the indexer reports it, rounded to the second
BlockTime(height) == 1000 + 6 * height


(***************************************************************************)
(* Python helpers: dict.get, truthiness, stable sorted(), iteration of a   *)
(* set in an order the program does not control.                           *)
(***************************************************************************)
EmptyDict == [k \in {} |-> 0]

Get(d, key, default) == IF key \in DOMAIN d THEN d[key] ELSE default

\* a JSON response is falsy only when it is the empty object
Truthy(response) == DOMAIN response # {}

\* s with x put behind every element whose key is not greater: one step of
\* the stable sorted(s, key=lambda txn: txn.<key>)
InsertBy(s, x, key) ==
    LET before == SelectSeq(s, LAMBDA y : y[key] <= x[key])
        after  == SelectSeq(s, LAMBDA y : y[key] > x[key])
    IN before \o <<x>> \o after

RECURSIVE SortedBy(_, _)
SortedBy(s, key) ==
    IF s = <<>> THEN <<>>
    ELSE InsertBy(SortedBy(SubSeq(s, 1, Len(s) - 1), key), s[Len(s)], key)

\* every order in which the elements of a set built from the list s can be
\* enumerated (Txn defines no __eq__/__hash__: a set of Txn iterates by id)
Enumerations(s) ==
    LET n == Len(s)
        P == {p \in [1..n -> 1..n] : \A i, j \in 1..n : p[i] = p[j] => i = j}
    IN {[i \in 1..n |-> s[p[i]]] : p \in P}

RECURSIVE Sum(_)
Sum(s) == IF s = <<>> THEN 0 ELSE s[1] + Sum(Tail(s))

(***************************************************************************)
(* The indexer (requests.get(api).json()).  An api is the pair of the      *)
(* query's action and page; <<"block", height>> is the block query.        *)
(* Every page is a request of its own: first is the list of executed       *)
(* transactions the indexer holds when it answers page 1 of a fetch, later *)
(* the list it holds when it answers the pages after it.                   *)
(***************************************************************************)
InstantiateAction == "instantiate._contract_address"

ExecuteAction == "execute._contract_address"

Min(a, b) == IF a <= b THEN a ELSE b

Request(api, first, later) ==
    LET all   == IF api[1] = InstantiateAction THEN <<InstantiateTx>>
                 ELSE IF api[2] = 1 THEN first ELSE later
        total == Len(all)
        pages == IF total = 0 THEN 1 ELSE (total + PageSize - 1) \div PageSize
        page  == api[2]
    IN IF page < 1 \/ page > pages
       THEN [error |-> "page should be within range"]
       ELSE [result |-> [total_count |-> total,
                         txs |-> SubSeq(all, (page - 1) * PageSize + 1,
                                        Min(page * PageSize, total))]]

(***************************************************************************)
(* DataBase and Explorer.  st is the pair of the in-memory dict and the    *)
(* pickle file; an operation returns the st it leaves.                     *)
(***************************************************************************)
NoFile == [exists |-> FALSE, content |-> EmptyDict]

\* DataBase.__init__: the dict loaded from the pickle, when there is one
DataBase(f) == IF f.exists THEN f.content ELSE EmptyDict

\* DataBase.setdefault: a new key is stored and the whole dict is dumped
setdefault(st, key, value) ==
    IF key \in DOMAIN st.database
    THEN [st |-> st, value |-> st.database[key]]
    ELSE LET d == (key :> value) @@ st.database
         IN [st |-> [database |-> d, file |-> [exists |-> TRUE, content |-> d]],
             value |-> value]

\* a variant of _txs whose forced request stores the response it gets
_txs_forced_stored(st, action, force, page, first, later) ==
    IF force
    THEN [st |-> [database |-> (<<action, page>>
                                  :> Request(<<action, page>>, first, later))
                               @@ st.database,
                  file |-> [exists |-> TRUE,
                            content |-> (<<action, page>>
                                           :> Request(<<action, page>>, first, later))
                                        @@ st.database]],
          value |-> Request(<<action, page>>, first, later)]
    ELSE IF <<action, page>> \in DOMAIN st.database
            /\ Truthy(st.database[<<action, page>>])
         THEN [st |-> st, value |-> st.database[<<action, page>>]]
         ELSE setdefault(st, <<action, page>>, Request(<<action, page>>, first, later))

\* lines 46-51 of Explorer._txs: json is what requests.get(api).json() gives
\* when it is evaluated
_txs_json(st, api, force, json) ==
    IF force
    THEN [st |-> st, value |-> json]
    ELSE IF api \in DOMAIN st.database /\ Truthy(st.database[api])
         THEN [st |-> st, value |-> st.database[api]]
         ELSE setdefault(st, api, json)

\* whether lines 46-51 evaluate requests.get(api): always when forced, else
\* when DataBase.get(api) is falsy (the operand of `or` that follows)
_txs_requests(st, api, force) ==
    force \/ ~(api \in DOMAIN st.database /\ Truthy(st.database[api]))

\* Explorer._txs: one page, forced or through the DataBase
_txs(st, action, force, page, first, later) ==
    _txs_json(st, <<action, page>>, force, Request(<<action, page>>, first, later))

Raise(error, st) == [error |-> error, st |-> st, txs |-> <<>>]

\* the DataBase in which the list of the first page of action is acc: what
\* `+=` makes of a stored response when the list it extends is the stored one
Accumulated(st, action, acc) ==
    IF <<action, 1>> \in DOMAIN st.database
       /\ "txs" \in DOMAIN Get(st.database[<<action, 1>>], "result", EmptyDict)
    THEN [st EXCEPT !.database[<<action, 1>>].result.txs = acc]
    ELSE st

\* a variant of deepcopy that hands out the stored object itself
deepcopy_shared(st, shared) == shared

\* copy.deepcopy of the response _txs returns from the DataBase: st is the
\* state when the caller changes the copy, shared the state had it changed
\* the stored object
deepcopy(st, shared) == st

\* the while loop of Explorer.txs: pages until txs_number reaches txs_total;
\* NextPage is the body of the loop, r the page _txs returned
RECURSIVE Paginate(_, _, _, _, _, _, _, _)
NextPage(r, action, force, acc, txs_total, page, first, later) ==
    IF "txs" \notin DOMAIN Get(r.value, "result", EmptyDict)
    THEN Raise("TypeError", r.st)
    ELSE Paginate(IF force THEN r.st
                  ELSE deepcopy(r.st, Accumulated(r.st, action,
                                                  acc \o r.value.result.txs)),
                  action, force, acc \o r.value.result.txs, txs_total, page,
                  first, later)

\* a variant of Paginate that asks for one more page when the count has
\* just reached the total
Paginate_inclusive(st, action, force, acc, txs_total, page, first, later) ==
    IF ~(Len(acc) <= txs_total)
    THEN [error |-> "none", st |-> st, txs |-> acc]
    ELSE NextPage(_txs(st, action, force, page + 1, first, later), action, force,
                  acc, txs_total, page + 1, first, later)

Paginate(st, action, force, acc, txs_total, page, first, later) ==
    IF ~(Len(acc) < txs_total)
    THEN [error |-> "none", st |-> st, txs |-> acc]
    ELSE NextPage(_txs(st, action, force, page + 1, first, later), action, force,
                  acc, txs_total, page + 1, first, later)

\* the execute query of Explorer.txs and the returned list: p1 is the
\* instantiate query's outcome, r2 the first page, p2 the execute query's
txs_return(p1, r2, p2) ==
    IF p2.error # "none" THEN p2
    ELSE IF "txs" \notin DOMAIN Get(r2.value, "result", EmptyDict)
         THEN Raise("TypeError", p2.st)
         ELSE [error |-> "none", st |-> p2.st, txs |-> p1.txs \o p2.txs]

txs_execute_pages(p1, r2, execute_txs, force, first, later) ==
    txs_return(p1, r2,
               Paginate(r2.st, ExecuteAction, force, Get(execute_txs, "txs", <<>>),
                        Get(execute_txs, "total_count", 0), 1, first, later))

txs_execute(p1, force, first, later) ==
    IF p1.error # "none" THEN p1
    ELSE txs_execute_pages(p1, _txs(p1.st, ExecuteAction, force, 1, first, later),
                           Get(_txs(p1.st, ExecuteAction, force, 1, first, later).value,
                               "result", EmptyDict),
                           force, first, later)

\* the instantiate query of Explorer.txs: r1 is its first page
txs_instantiate(r1, instantiate_txs, force, first, later) ==
    IF "total_count" \notin DOMAIN instantiate_txs
    THEN Raise("TypeError", r1.st)
    ELSE txs_execute(Paginate(r1.st, InstantiateAction, force, instantiate_txs.txs,
                              instantiate_txs.total_count, 1, first, later),
                     force, first, later)

\* Explorer.txs: the Txn of the instantiate and of the execute query
txs(st, force, first, later) ==
    txs_instantiate(_txs(st, InstantiateAction, force, 1, first, later),
                    Get(_txs(st, InstantiateAction, force, 1, first, later).value,
                        "result", EmptyDict),
                    force, first, later)

(***************************************************************************)
(* Transaction Classifier: the <keyword>_txs methods of Explorer, applied  *)
(* to the list Explorer.txs returned.                                      *)
(***************************************************************************)
methods(txn) == DOMAIN txn.message

\* whether Txn.methods returns for every member of all; when it raises for
\* one, every <keyword>_txs raises
decoded(all) == \A i \in DOMAIN all : all[i].json

IsDict(payload) == payload.kind = "dict"

Classify(all, keywords) ==
    SelectSeq(all, LAMBDA txn : keywords \cap methods(txn) # {})

mint_txs(all) == Classify(all, {"buy", "multi_buy"})

whitelist_txs(all) == Classify(all, {"add_to_whitelist"})

admin_txs(all) == Classify(all, {"add_admin"})

\* a variant of pre_sell_mode_txs without the isinstance test
pre_sell_mode_txs_any(all) == Classify(all, {"pre_sell_mode"})

pre_sell_mode_txs(all) ==
    SelectSeq(Classify(all, {"pre_sell_mode"}),
              LAMBDA txn : IsDict(txn.message["pre_sell_mode"]))

sell_mode_txs(all) ==
    SelectSeq(Classify(all, {"sell_mode"}),
              LAMBDA txn : IsDict(txn.message["sell_mode"]))

price_txs(all) == Classify(all, {"update_price"})

supply_txs(all) == Classify(all, {"update_supply"})

metadata_txs(all) == Classify(all, {"update_metadata"})

max_buy_txs(all) == Classify(all, {"max_buy_at_once"})

(***************************************************************************)
(* Txn.timestamp: the block time held by the DataBase.  When the block     *)
(* query is not in the DataBase, _timestamp adds the str "a" to the        *)
(* rounded pd.Timestamp, which raises TypeError before setdefault runs.    *)
(***************************************************************************)
BlockApi(height) == <<"block", height>>

has_timestamp(db, txn) == BlockApi(txn.height) \in DOMAIN db

timestamp(db, txn) == db[BlockApi(txn.height)]

(***************************************************************************)
(* Project State Reconstructor: the _<field> methods of Project.  The      *)
(* argument s is the classified subset in the order the set enumerates it. *)
(***************************************************************************)
Last(s) == s[Len(s)]

\* a variant of latest that does not sort: the last one enumerated
latest_unsorted(s) == Last(s)

latest(s) == Last(SortedBy(s, "height"))

_price(s) == latest(s).message["update_price"].price.amount

_unit(s) == latest(s).message["update_price"].price.denom

_total_market_supply(s) == latest(s).message["update_supply"].market_supply

_total_reserved_supply(s) == latest(s).message["update_supply"].reserved_supply

_max_buy_at_once(s) == latest(s).message["max_buy_at_once"].value

_name(s) == latest(s).message["update_metadata"].metadata.name

_description(s) == latest(s).message["update_metadata"].metadata.description

_image(s) == latest(s).message["update_metadata"].metadata.image

\* a variant of enabled_txs that keeps the disabling ones too
enabled_txs_any(s, keyword) == s

\* a variant of enabled_txs that falls back on all toggles when none enables
enabled_txs_or_all(s, keyword) ==
    IF SelectSeq(s, LAMBDA txn : txn.message[keyword].enable) = <<>> THEN s
    ELSE SelectSeq(s, LAMBDA txn : txn.message[keyword].enable)

enabled_txs(s, keyword) == SelectSeq(s, LAMBDA txn : txn.message[keyword].enable)

_presale_height(s) == latest(enabled_txs(s, "pre_sell_mode")).height

_presale_timestamp(s, db) == timestamp(db, latest(enabled_txs(s, "pre_sell_mode")))

_sale_height(s) == latest(enabled_txs(s, "sell_mode")).height

_sale_timestamp(s, db) == timestamp(db, latest(enabled_txs(s, "sell_mode")))

\* the addresses of the model in the order Python's str comparison gives
AddressesSorted ==
    <<"juno1admin", "juno1alice", "juno1bob", "juno1carol", "juno1dave",
      "juno1owner">>

\* a variant of _admins that leaves out the senders
_admins_named(s) ==
    LET admins == {s[i].message["add_admin"].address : i \in DOMAIN s}
    IN SelectSeq(AddressesSorted, LAMBDA a : a \in admins)

_admins(s) ==
    LET senders == {s[i].sender : i \in DOMAIN s}
        admins  == {s[i].message["add_admin"].address : i \in DOMAIN s}
    IN SelectSeq(AddressesSorted, LAMBDA a : a \in senders \cup admins)

RECURSIVE Flatten(_)
Flatten(ss) == IF ss = <<>> THEN <<>> ELSE ss[1] \o Flatten(Tail(ss))

\* a dict comprehension: a later entry replaces an earlier one of its key
RECURSIVE DictOf(_)
DictOf(entries) ==
    IF entries = <<>> THEN EmptyDict
    ELSE LET e == Last(entries)
         IN (e.address :> e.nb_slots)
                @@ DictOf(SubSeq(entries, 1, Len(entries) - 1))

whitelist_entries(txn) == txn.message["add_to_whitelist"].entries

\* a variant of _whitelists that keeps the single-entry updates
_whitelists_single(s, presale_height) ==
    LET kept == SelectSeq(s, LAMBDA txn : txn.height <= presale_height)
    IN DictOf(Flatten([i \in DOMAIN kept |-> whitelist_entries(kept[i])]))

_whitelists(s, presale_height) ==
    LET kept == SelectSeq(s, LAMBDA txn :
                    /\ txn.height <= presale_height
                    /\ Len(whitelist_entries(txn)) > 1)
    IN DictOf(Flatten([i \in DOMAIN kept |-> whitelist_entries(kept[i])]))

\* a variant of _mints that sorts by height alone
_mints_by_height(s) == SortedBy(s, "height")

_mints(s) == SortedBy(SortedBy(s, "hash"), "height")

RECURSIVE SumValues(_)
SumValues(d) ==
    IF DOMAIN d = {} THEN 0
    ELSE LET k == CHOOSE k \in DOMAIN d : TRUE
         IN d[k] + SumValues([j \in DOMAIN d \ {k} |-> d[j]])

\* a variant of _total_whitelist_supply that counts the addresses
_total_whitelist_supply_len(whitelists) == Cardinality(DOMAIN whitelists)

_total_whitelist_supply(whitelists) == SumValues(whitelists)

\* n / d rounded to the nearest integer, a tie to the even one
RoundHalfEven(n, d) ==
    IF 2 * (n % d) < d THEN n \div d
    ELSE IF 2 * (n % d) > d THEN (n \div d) + 1
    ELSE IF (n \div d) % 2 = 0 THEN n \div d ELSE (n \div d) + 1

\* how often d is doubled until n / d needs no more than MantissaBits bits
RECURSIVE ScaleDown(_, _)
ScaleDown(n, d) ==
    IF n < 2^MantissaBits * d THEN 0 ELSE 1 + ScaleDown(n, 2 * d)

\* how often n is doubled until n / d fills MantissaBits bits
RECURSIVE ScaleUp(_, _)
ScaleUp(n, d) ==
    IF n >= 2^(MantissaBits - 1) * d THEN 0 ELSE 1 + ScaleUp(2 * n, d)

\* n / d of two ints, n >= 0 and d > 0: the float nearest the quotient, as
\* its significand m and exponent e (the float is m * 2^e)
truediv(n, d) ==
    IF n = 0 THEN [m |-> 0, e |-> 0]
    ELSE IF n >= 2^MantissaBits * d
         THEN [m |-> RoundHalfEven(n, d * 2^ScaleDown(n, d)), e |-> ScaleDown(n, d)]
         ELSE [m |-> RoundHalfEven(n * 2^ScaleUp(n, d), d), e |-> 0 - ScaleUp(n, d)]

\* int(x) of a non-negative float: the fraction is cut off
int(x) == IF x.e >= 0 THEN x.m * 2^x.e ELSE x.m \div 2^(0 - x.e)

\* int(txn.amount / price) for a non-negative amount and a positive price
tokens(amount, price) == int(truediv(amount, price))

_total_market_minted(mints, price) ==
    Sum([i \in DOMAIN mints |-> tokens(mints[i].amount, price)])

\* a variant of _total_whitelist_minted that adds up the amounts paid
_total_whitelist_minted_paid(mints, price, sale_height) ==
    LET kept == SelectSeq(mints, LAMBDA txn : txn.height <= sale_height)
    IN Sum([i \in DOMAIN kept |-> kept[i].amount])

_total_whitelist_minted(mints, price, sale_height) ==
    LET kept == SelectSeq(mints, LAMBDA txn : txn.height <= sale_height)
    IN Sum([i \in DOMAIN kept |-> tokens(kept[i].amount, price)])

(***************************************************************************)
(* The orders in which one run of the property assignments enumerates the  *)
(* classified subsets: one order for each place that iterates a set.       *)
(***************************************************************************)
Orders(all) ==
    [presale_height        : Enumerations(pre_sell_mode_txs(all)),
     presale_timestamp     : Enumerations(pre_sell_mode_txs(all)),
     sale_height           : Enumerations(sell_mode_txs(all)),
     sale_timestamp        : Enumerations(sell_mode_txs(all)),
     admins                : Enumerations(admin_txs(all)),
     whitelists            : Enumerations(whitelist_txs(all)),
     mints                 : Enumerations(mint_txs(all)),
     max_buy_at_once       : Enumerations(max_buy_txs(all)),
     name                  : Enumerations(metadata_txs(all)),
     description           : Enumerations(metadata_txs(all)),
     image                 : Enumerations(metadata_txs(all)),
     price                 : Enumerations(price_txs(all)),
     unit                  : Enumerations(price_txs(all)),
     total_market_supply   : Enumerations(supply_txs(all)),
     total_reserved_supply : Enumerations(supply_txs(all))]

\* the order of the list Explorer.txs returned
ListOrder(all) ==
    [presale_height        |-> pre_sell_mode_txs(all),
     presale_timestamp     |-> pre_sell_mode_txs(all),
     sale_height           |-> sell_mode_txs(all),
     sale_timestamp        |-> sell_mode_txs(all),
     admins                |-> admin_txs(all),
     whitelists            |-> whitelist_txs(all),
     mints                 |-> mint_txs(all),
     max_buy_at_once       |-> max_buy_txs(all),
     name                  |-> metadata_txs(all),
     description           |-> metadata_txs(all),
     image                 |-> metadata_txs(all),
     price                 |-> price_txs(all),
     unit                  |-> price_txs(all),
     total_market_supply   |-> supply_txs(all),
     total_reserved_supply |-> supply_txs(all)]

(***************************************************************************)
(* The property assignments of Project.__init__ and of check_update, in    *)
(* the order of the source.  Failure is the first assignment that raises   *)
(* (0 when none does) and the exception it raises.                         *)
(***************************************************************************)
NoProject == [alive |-> FALSE]

\* whether .get("enable") works on the payload of every member of s
toggles(s, keyword) == \A i \in DOMAIN s : IsDict(s[i].message[keyword])

Failure(all, db, o) ==
    IF ~decoded(all)
        THEN [step |-> 1, error |-> "JSONDecodeError"]
    ELSE IF ~toggles(o.presale_height, "pre_sell_mode")
        THEN [step |-> 1, error |-> "AttributeError"]
    ELSE IF enabled_txs(o.presale_height, "pre_sell_mode") = <<>>
        THEN [step |-> 1, error |-> "IndexError"]
    ELSE IF ~has_timestamp(db, latest(enabled_txs(o.presale_timestamp, "pre_sell_mode")))
        THEN [step |-> 2, error |-> "TypeError"]
    ELSE IF ~toggles(o.sale_height, "sell_mode")
        THEN [step |-> 3, error |-> "AttributeError"]
    ELSE IF enabled_txs(o.sale_height, "sell_mode") = <<>>
        THEN [step |-> 3, error |-> "IndexError"]
    ELSE IF ~has_timestamp(db, latest(enabled_txs(o.sale_timestamp, "sell_mode")))
        THEN [step |-> 4, error |-> "TypeError"]
    ELSE IF \E i \in DOMAIN all : ~has_timestamp(db, all[i])
        THEN [step |-> 8, error |-> "TypeError"]
    ELSE IF o.max_buy_at_once = <<>> THEN [step |-> 9, error |-> "IndexError"]
    ELSE IF o.name = <<>> THEN [step |-> 10, error |-> "IndexError"]
    ELSE IF o.price = <<>> THEN [step |-> 13, error |-> "IndexError"]
    ELSE IF o.total_market_supply = <<>> THEN [step |-> 15, error |-> "IndexError"]
    ELSE IF o.mints # <<>> /\ _price(o.price) = 0
        THEN [step |-> 20, error |-> "ZeroDivisionError"]
    ELSE [step |-> 0, error |-> "none"]

\* the fields after the assignments: those before the failing one f are
\* new, the others are as in old
Assigned(f, old, db, o) ==
    LET New(i, new, field) == IF f.step = 0 \/ i < f.step THEN new ELSE old[field]
        presale_height == New(1, _presale_height(o.presale_height), "presale_height")
        sale_height    == New(3, _sale_height(o.sale_height), "sale_height")
        whitelists     == New(6, _whitelists(o.whitelists, presale_height), "whitelists")
        mints          == New(7, _mints(o.mints), "mints")
        price          == New(13, _price(o.price), "price")
        market_supply  == New(15, _total_market_supply(o.total_market_supply),
                              "total_market_supply")
        reserved_supply == New(16, _total_reserved_supply(o.total_reserved_supply),
                               "total_reserved_supply")
        whitelist_supply == New(17, _total_whitelist_supply(whitelists),
                                "total_whitelist_supply")
        market_minted  == New(20, _total_market_minted(mints, price),
                              "total_market_minted")
        reserved_minted == New(21, reserved_supply, "total_reserved_minted")
        whitelist_minted == New(22, _total_whitelist_minted(mints, price, sale_height),
                                "total_whitelist_minted")
    IN [error |-> f.error,
        project |->
          [alive                  |-> TRUE,
           presale_height         |-> presale_height,
           presale_timestamp      |-> New(2, _presale_timestamp(o.presale_timestamp, db),
                                          "presale_timestamp"),
           sale_height            |-> sale_height,
           sale_timestamp         |-> New(4, _sale_timestamp(o.sale_timestamp, db),
                                          "sale_timestamp"),
           admins                 |-> New(5, _admins(o.admins), "admins"),
           whitelists             |-> whitelists,
           mints                  |-> mints,
           max_buy_at_once        |-> New(9, _max_buy_at_once(o.max_buy_at_once),
                                          "max_buy_at_once"),
           name                   |-> New(10, _name(o.name), "name"),
           description            |-> New(11, _description(o.description), "description"),
           image                  |-> New(12, _image(o.image), "image"),
           price                  |-> price,
           unit                   |-> New(14, _unit(o.unit), "unit"),
           total_market_supply    |-> market_supply,
           total_reserved_supply  |-> reserved_supply,
           total_whitelist_supply |-> whitelist_supply,
           total_public_supply    |-> New(18, market_supply - whitelist_supply,
                                          "total_public_supply"),
           total_supply           |-> New(19, market_supply + reserved_supply,
                                          "total_supply"),
           total_market_minted    |-> market_minted,
           total_reserved_minted  |-> reserved_minted,
           total_whitelist_minted |-> whitelist_minted,
           total_public_minted    |-> New(23, market_minted - whitelist_minted,
                                          "total_public_minted"),
           total_minted           |-> New(24, market_minted + reserved_minted,
                                          "total_minted")]]

Assign(old, all, db, o) == Assigned(Failure(all, db, o), old, db, o)

(***************************************************************************)
(* Project.check_update.  cache_clear(self._explorer) finds no property    *)
(* and no lru_cache wrapper among the attributes of Explorer and clears    *)
(* nothing; DATA_BASE.rename moves the pickle and leaves the in-memory     *)
(* DataBase as it is.                                                      *)
(***************************************************************************)
\* how far check_update got before the property assignments: its state,
\* whether the counts differed, and, when the assignments are to run
\* (assign), what their Explorer.txs calls return (all)
Before(error, st, bk, stale, assign, all) ==
    [error |-> error, st |-> st, backups |-> bk, stale |-> stale,
     assign |-> assign, all |-> all]

\* lines 57-60: the pickle is renamed; u is what the first <keyword>_txs
\* call of the assignments gets from Explorer.txs
check_update_renamed(u, bk) ==
    IF u.error # "none" THEN Before(u.error, u.st, bk, TRUE, FALSE, <<>>)
    ELSE Before("none", u.st, bk, TRUE, TRUE, u.txs)

\* a variant of check_update_rename that goes on when there is no pickle
check_update_rename_missing_ok(st, bk, later) ==
    check_update_renamed(
        txs([database |-> st.database, file |-> NoFile], FALSE, later, later),
        bk \cup {st.file.content})

\* lines 54-57: cache_clear clears nothing, DATA_BASE.rename
check_update_rename(st, bk, later) ==
    IF ~st.file.exists
    THEN Before("FileNotFoundError", st, bk, TRUE, FALSE, <<>>)
    ELSE check_update_renamed(
             txs([database |-> st.database, file |-> NoFile], FALSE, later, later),
             bk \cup {st.file.content})

\* a variant of check_update_compare that renames and reassigns whatever
\* the counts are
check_update_compare_always(t, force_txs, bk, later) ==
    IF force_txs.error # "none"
    THEN Before(force_txs.error, force_txs.st, bk, FALSE, FALSE, <<>>)
    ELSE check_update_rename(force_txs.st, bk, later)

\* a variant of check_update_compare that takes only a longer list for new
check_update_compare_longer(t, force_txs, bk, later) ==
    IF force_txs.error # "none"
    THEN Before(force_txs.error, force_txs.st, bk, FALSE, FALSE, <<>>)
    ELSE IF Len(t.txs) >= Len(force_txs.txs)
         THEN Before("none", force_txs.st, bk, FALSE, FALSE, <<>>)
         ELSE check_update_rename(force_txs.st, bk, later)

\* line 53: t is the cached fetch, force_txs the forced one
check_update_compare(t, force_txs, bk, later) ==
    IF force_txs.error # "none"
    THEN Before(force_txs.error, force_txs.st, bk, FALSE, FALSE, <<>>)
    ELSE IF Len(t.txs) = Len(force_txs.txs)
         THEN Before("none", force_txs.st, bk, FALSE, FALSE, <<>>)
         ELSE check_update_rename(force_txs.st, bk, later)

\* line 52: the forced fetch, during which the indexer's list may grow
check_update_force(t, bk, first, later) ==
    IF t.error # "none" THEN Before(t.error, t.st, bk, FALSE, FALSE, <<>>)
    ELSE check_update_compare(t, txs(t.st, TRUE, first, later), bk, later)

\* lines 51-57
check_update_begin(st, bk, first, later) ==
    check_update_force(txs(st, FALSE, first, first), bk, first, later)

Outcome(error, st, bk, prj, stale) ==
    [error |-> error, st |-> st, backups |-> bk, project |-> prj, stale |-> stale]

\* lines 60-83, after b: the assignments in the orders o
check_update_end(b, old, o) ==
    IF ~b.assign THEN Outcome(b.error, b.st, b.backups, old, b.stale)
    ELSE Outcome(Failure(b.all, b.st.database, o).error, b.st, b.backups,
                 Assign(old, b.all, b.st.database, o).project, b.stale)

check_update(st, bk, old, o, first, later) ==
    check_update_end(check_update_begin(st, bk, first, later), old, o)

\* what Explorer.txs(address) returns from the DataBase as it is
CachedTxs(st) == txs(st, FALSE, ledger, ledger).txs

\* what a forced Explorer.txs(address) returns
ForcedTxs(st) == txs(st, TRUE, ledger, ledger).txs

(***************************************************************************)
(* State machine.                                                          *)
(***************************************************************************)
Blocks(heights) == [api \in {BlockApi(h) : h \in heights} |-> BlockTime(api[2])]

Extras(X) == SelectSeq(ExtraTxs, LAMBDA txn : \E i \in X : ExtraTxs[i] = txn)

Ended(op, error, stale) == [op |-> op, error |-> error, stale |-> stale]

\* no Explorer.txs call is followed page by page
NoCall ==
    [pc |-> "idle", action |-> "none", force |-> FALSE, page |-> 0, odd |-> FALSE,
     txs_number |-> 0, txs_total |-> 0, txs |-> FALSE,
     requested |-> FALSE, stored |-> FALSE, same |-> FALSE]

\* the configuration the contract has received: all of it, all but one
\* transaction, or none yet
Configured ==
    {BaseTxs, <<>>} \cup
    {SelectSeq(BaseTxs, LAMBDA txn : txn # BaseTxs[i]) : i \in DOMAIN BaseTxs}

\* how far the list l is from the full configuration: the transactions of
\* ExtraTxs it holds and those of BaseTxs it lacks
Changes(l) ==
    Cardinality({k \in DOMAIN l : l[k] \in Range(ExtraTxs)})
        + Cardinality(Range(BaseTxs) \ Range(l))

\* the pickle an earlier run left when the indexer held the list l, whose
\* last transaction (the last of ExtraTxs) the node that answers now does
\* not return: the pages of l and the block times
Pickled(l) ==
    [exists |-> TRUE,
     content |-> Blocks(Heights) @@
                 txs([database |-> EmptyDict, file |-> NoFile], FALSE, l, l).st.database]

Init ==
    /\ \E picks \in [1..MaxExtra -> DOMAIN ExtraTxs] :
       \E n \in 0..MaxExtra : \E base \in Configured :
          /\ \A i \in 1..MaxExtra :
                IF i > n THEN picks[i] = 1 ELSE i > 1 => picks[i - 1] < picks[i]
          /\ \/ /\ ledger = SortedBy(base \o Extras({picks[i] : i \in 1..n}), "height")
                /\ file \in {NoFile, [exists |-> TRUE, content |-> Blocks(Heights)]}
             \/ /\ n > 0
                /\ picks[n] = Len(ExtraTxs)
                /\ ledger = SortedBy(base \o Extras({picks[i] : i \in 1..(n - 1)}),
                                     "height")
                /\ ledger # <<>>
                /\ ExtraTxs[picks[n]].height >= Last(ledger).height
                /\ file = Pickled(Append(ledger, ExtraTxs[picks[n]]))
          /\ Changes(ledger) <= MaxExtra \/ ledger = <<>>
    /\ database = EmptyDict
    /\ backups = {}
    /\ project = NoProject
    /\ last = Ended("none", "none", FALSE)
    /\ call = NoCall

\* a transaction lands on the ledger, in a block not older than the last;
\* the transactions of ExtraTxs land in the order of that list (what landed
\* before the first Project(address) is part of the initial list)
CanLand(i) ==
    /\ Changes(ledger) < MaxExtra
    /\ \A k \in DOMAIN ledger : \A j \in i..Len(ExtraTxs) : ledger[k] # ExtraTxs[j]
    /\ ExtraTxs[i].height >= Last(ledger).height

Land(i) ==
    /\ last.op # "none"
    /\ CanLand(i)
    /\ ledger' = Append(ledger, ExtraTxs[i])
    /\ last' = Ended("land", "none", FALSE)
    /\ UNCHANGED <<database, file, backups, project, call>>

\* the lists the indexer may hold when it answers the later pages of a
\* forced fetch that began with the list ledger: a transaction (the last of
\* ExtraTxs) may have landed since page 1 (a fetch of one page sees one list)
Laters ==
    IF Len(ledger) > PageSize /\ CanLand(Len(ExtraTxs))
    THEN {ledger, Append(ledger, ExtraTxs[Len(ExtraTxs)])}
    ELSE {ledger}

\* Project(address): a new Explorer loads the pickle, the properties are
\* assigned, check_update runs; an exception leaves no Project
Failed(f, st) ==
    /\ project' = NoProject
    /\ database' = EmptyDict
    /\ file' = st.file
    /\ last' = Ended("construct", f.error, FALSE)
    /\ UNCHANGED <<ledger, backups, call>>

Checked(c, later) ==
    /\ project' = IF c.error = "none" THEN c.project ELSE NoProject
    /\ database' = IF c.error = "none" THEN c.st.database ELSE EmptyDict
    /\ file' = c.st.file
    /\ backups' = c.backups
    /\ last' = Ended("construct", c.error, c.stale)
    /\ ledger' = later
    /\ UNCHANGED call

\* the fields the assignments of __init__ can leave for check_update, as
\* far as check_update, enumerating as o2, reads them: when its own
\* assignments run and none raises, every field is assigned anew
Firsts(t, b, o2) ==
    IF b.assign /\ Failure(b.all, b.st.database, o2).step = 0
    THEN IF \E o1 \in Orders(t.txs) : Failure(t.txs, t.st.database, o1).error = "none"
         THEN {NoProject} ELSE {}
    ELSE {Assign(NoProject, t.txs, t.st.database, o1).project :
            o1 \in {o \in Orders(t.txs) : Failure(t.txs, t.st.database, o).error = "none"}}

Constructed(t, b, later) ==
    \/ \E o1 \in Orders(t.txs) :
          /\ Failure(t.txs, t.st.database, o1).error # "none"
          /\ Failed(Failure(t.txs, t.st.database, o1), t.st)
    \/ \E o2 \in (IF b.assign THEN Orders(b.all) ELSE {ListOrder(<<>>)}) :
          \E old \in Firsts(t, b, o2) : Checked(check_update_end(b, old, o2), later)

Fetched(t, b, later) ==
    IF t.error # "none" THEN Failed([step |-> 1, error |-> t.error], t.st)
    ELSE Constructed(t, b, later)

Loaded(t) ==
    \E later \in Laters : Fetched(t, check_update_begin(t.st, backups, ledger, later),
                                  later)

Construct ==
    /\ ~project.alive
    /\ Loaded(txs([database |-> DataBase(file), file |-> file], FALSE, ledger, ledger))

\* the process ends: the Project and its Explorer are gone, the files stay
Exit ==
    /\ project.alive
    /\ project' = NoProject
    /\ database' = EmptyDict
    /\ last' = Ended("exit", "none", FALSE)
    /\ UNCHANGED <<ledger, file, backups, call>>

\* project.check_update() on the Project that exists
Updated(c, later) ==
    /\ project' = c.project
    /\ database' = c.st.database
    /\ file' = c.st.file
    /\ backups' = c.backups
    /\ last' = Ended("check_update", c.error, c.stale)
    /\ ledger' = later
    /\ UNCHANGED call

CheckUpdateFrom(b, later) ==
    \E o \in (IF b.assign THEN Orders(b.all) ELSE {ListOrder(<<>>)}) :
       Updated(check_update_end(b, project, o), later)

CheckUpdate ==
    /\ project.alive
    /\ \E later \in Laters :
          CheckUpdateFrom(check_update_begin([database |-> database, file |-> file],
                                             backups, ledger, later),
                          later)

Next ==
    \/ Construct
    \/ CheckUpdate
    \/ Exit
    \/ \E i \in DOMAIN ExtraTxs : Land(i)

Spec == Init /\ [][Next]_vars

(***************************************************************************)
(* Properties.  View is the transaction list the Project's Explorer gets   *)
(* from its DataBase, the list the fields of an existing Project were      *)
(* assigned from; Forced is the list a forced fetch returns.               *)
(***************************************************************************)
View == CachedTxs([database |-> database, file |-> file])

Forced == ForcedTxs([database |-> database, file |-> file])

HeightsOf(s) == {s[i].height : i \in DOMAIN s}

\* the members of s at the greatest height of s
Highest(s) == {txn \in Range(s) : \A other \in Range(s) : other.height <= txn.height}

\* the fields the assignments give for the list all, enumerated as o
Fields(all, db, o) == Assign(NoProject, all, db, o).project

\* C1: the fields of a Project are the same for every order in which the
\* classified subsets of its transaction list can be enumerated
C1_Deterministic ==
    project.alive =>
        \A o \in Orders(View) : Fields(View, database, o) = project

\* C2: after a check_update that found the counts to differ and ended
\* without error, the fields are those assigned from the forced fetch
C2_RefreshedFromForced ==
    (project.alive /\ last.stale /\ last.error = "none") =>
        \E o \in Orders(Forced) :
            Fields(Forced, Blocks(Heights) @@ database, o) = project

\* C3: each latest-value-wins field holds the payload of a member of its
\* classified subset that no other member exceeds in height
C3_LatestWins ==
    project.alive =>
        /\ \E txn \in Highest(price_txs(View)) :
              project.price = txn.message["update_price"].price.amount
        /\ \E txn \in Highest(price_txs(View)) :
              project.unit = txn.message["update_price"].price.denom
        /\ \E txn \in Highest(supply_txs(View)) :
              project.total_market_supply = txn.message["update_supply"].market_supply
        /\ \E txn \in Highest(supply_txs(View)) :
              project.total_reserved_supply = txn.message["update_supply"].reserved_supply
        /\ \E txn \in Highest(metadata_txs(View)) :
              /\ project.name = txn.message["update_metadata"].metadata.name
              /\ project.description = txn.message["update_metadata"].metadata.description
              /\ project.image = txn.message["update_metadata"].metadata.image
        /\ \E txn \in Highest(max_buy_txs(View)) :
              project.max_buy_at_once = txn.message["max_buy_at_once"].value

\* a Project built from price updates and supply updates at two heights each
C3_Witness ==
    /\ project.alive
    /\ Cardinality(HeightsOf(price_txs(View))) > 1
    /\ Cardinality(HeightsOf(supply_txs(View))) > 1
    /\ project.price = 50
    /\ project.total_market_supply = 160

\* the whitelist updates of View that _whitelists is to keep: more than one
\* entry, at or below the Project's presale height
Qualifying ==
    {txn \in Range(whitelist_txs(View)) :
        /\ Len(whitelist_entries(txn)) >= 2
        /\ txn.height <= project.presale_height}

AddressesOf(txn) ==
    {whitelist_entries(txn)[i].address : i \in DOMAIN whitelist_entries(txn)}

\* C4: the keys of the whitelist table are exactly the addresses of the
\* entries of the updates with two or more entries at or below the presale
\* height; a single-entry update and an update above it contribute none
C4_WhitelistExclusion ==
    project.alive =>
        DOMAIN project.whitelists = UNION {AddressesOf(txn) : txn \in Qualifying}

\* a Project built from a single-entry update next to an update that
\* qualifies, the address of the former missing from the table
C4_Witness ==
    /\ project.alive
    /\ Qualifying # {}
    /\ \E txn \in Range(whitelist_txs(View)) :
          /\ Len(whitelist_entries(txn)) = 1
          /\ txn.height <= project.presale_height
          /\ AddressesOf(txn) \cap DOMAIN project.whitelists = {}

\* C5: no admin is a key of the whitelist table
C5_NoAdminWhitelisted ==
    project.alive =>
        DOMAIN project.whitelists \cap Range(project.admins) = {}

\* C6: the slots of an address are those of the highest qualifying update
\* that names it
C6_LatestSlots ==
    project.alive =>
        \A a \in DOMAIN project.whitelists :
            \A txn \in Qualifying :
                (/\ a \in AddressesOf(txn)
                 /\ \A other \in Qualifying :
                       a \in AddressesOf(other) => other.height <= txn.height)
                => \E i \in DOMAIN whitelist_entries(txn) :
                      /\ whitelist_entries(txn)[i].address = a
                      /\ whitelist_entries(txn)[i].nb_slots = project.whitelists[a]

Enabling(s, keyword) == {txn \in Range(s) : txn.message[keyword].enable}

\* C7: the presale (sale) height and timestamp are those of the highest
\* enabling presale (sale) toggle
C7_Boundaries ==
    project.alive =>
        /\ project.presale_height
              = Max({txn.height : txn \in Enabling(pre_sell_mode_txs(View), "pre_sell_mode")})
        /\ project.presale_timestamp = BlockTime(project.presale_height)
        /\ project.sale_height
              = Max({txn.height : txn \in Enabling(sell_mode_txs(View), "sell_mode")})
        /\ project.sale_timestamp = BlockTime(project.sale_height)

\* a Project built from two enabling presale toggles and a disabling one
\* above both, and from a disabling sale toggle above the enabling one
C7_Witness ==
    /\ project.alive
    /\ Cardinality(Enabling(pre_sell_mode_txs(View), "pre_sell_mode")) > 1
    /\ \E txn \in Range(pre_sell_mode_txs(View)) :
          ~txn.message["pre_sell_mode"].enable /\ txn.height > project.presale_height

Count(s, x) == Cardinality({i \in DOMAIN s : s[i] = x})

\* sub holds the members of all that satisfy P, as often as all holds them,
\* and nothing else
ExactlyThose(sub, all, P(_)) ==
    /\ Range(sub) \subseteq Range(all)
    /\ \A txn \in Range(all) :
          Count(sub, txn) = IF P(txn) THEN Count(all, txn) ELSE 0

Invokes(txn, keywords) == \E m \in keywords : m \in DOMAIN txn.message

Classified(all) ==
    /\ ExactlyThose(mint_txs(all), all, LAMBDA txn : Invokes(txn, {"buy", "multi_buy"}))
    /\ ExactlyThose(whitelist_txs(all), all, LAMBDA txn : Invokes(txn, {"add_to_whitelist"}))
    /\ ExactlyThose(admin_txs(all), all, LAMBDA txn : Invokes(txn, {"add_admin"}))
    /\ ExactlyThose(price_txs(all), all, LAMBDA txn : Invokes(txn, {"update_price"}))
    /\ ExactlyThose(supply_txs(all), all, LAMBDA txn : Invokes(txn, {"update_supply"}))
    /\ ExactlyThose(metadata_txs(all), all, LAMBDA txn : Invokes(txn, {"update_metadata"}))
    /\ ExactlyThose(max_buy_txs(all), all, LAMBDA txn : Invokes(txn, {"max_buy_at_once"}))
    /\ ExactlyThose(pre_sell_mode_txs(all), all,
                    LAMBDA txn : /\ Invokes(txn, {"pre_sell_mode"})
                                 /\ txn.message["pre_sell_mode"].kind = "dict")
    /\ ExactlyThose(sell_mode_txs(all), all,
                    LAMBDA txn : /\ Invokes(txn, {"sell_mode"})
                                 /\ txn.message["sell_mode"].kind = "dict")

\* C8: each classified subset holds exactly the transactions that invoke one
\* of its keywords (for the toggles: with a mapping as payload), the empty
\* subset included; and the Project's mints are the classified mints
C8_Classification ==
    /\ Classified(View)
    /\ Classified(Forced)
    /\ project.alive =>
          \A txn \in Range(View) :
             Count(project.mints, txn)
                = IF Invokes(txn, {"buy", "multi_buy"}) THEN Count(View, txn) ELSE 0

\* a Project built from a list with scalar payloads under both toggle names,
\* no admin, no whitelist update and no mint
C8_Witness ==
    /\ project.alive
    /\ \E txn \in Range(View) :
          Invokes(txn, {"pre_sell_mode"}) /\ txn.message["pre_sell_mode"].kind = "scalar"
    /\ \E txn \in Range(View) :
          Invokes(txn, {"sell_mode"}) /\ txn.message["sell_mode"].kind = "scalar"
    /\ admin_txs(View) = <<>>
    /\ project.admins = <<>>
    /\ project.mints = <<>>

\* C9: mints() ascends by height and, at equal heights, by hash
C9_MintsOrdered ==
    project.alive =>
        \A i, j \in DOMAIN project.mints :
            i < j =>
              \/ project.mints[i].height < project.mints[j].height
              \/ /\ project.mints[i].height = project.mints[j].height
                 /\ project.mints[i].hash <= project.mints[j].hash

\* a Project with two mints at one height, which the indexer lists in the
\* other order
C9_Witness ==
    /\ project.alive
    /\ \E i, j \in DOMAIN project.mints :
          /\ i < j
          /\ project.mints[i].height = project.mints[j].height
          /\ project.mints[i].hash < project.mints[j].hash
          /\ \E k, l \in DOMAIN View :
                k < l /\ View[k] = project.mints[j] /\ View[l] = project.mints[i]

\* C10: mints() is a mapping from the hash of each buy or multi_buy
\* transaction to its height, timestamp, buyer address and amount
C10_LedgerKeyedByHash ==
    project.alive =>
        /\ DOMAIN project.mints = {txn.hash : txn \in Range(mint_txs(View))}
        /\ \A txn \in Range(mint_txs(View)) :
              project.mints[txn.hash]
                 = [height |-> txn.height, timestamp |-> BlockTime(txn.height),
                    address |-> txn.sender, amount |-> txn.amount]

\* the floor of amount / price
Floor(amount, price) == amount \div price

\* C11: total_market_minted is the sum over the mints of the floor of
\* amount / price
C11_FloorSum ==
    (project.alive /\ project.price > 0) =>
        project.total_market_minted
            = Sum([i \in DOMAIN project.mints |->
                      Floor(project.mints[i].amount, project.price)])

\* the sum of the floor of amount / price over the mints that satisfy Keep
FloorSumOver(mints, price, Keep(_)) ==
    Sum([i \in DOMAIN SelectSeq(mints, Keep) |->
            Floor(SelectSeq(mints, Keep)[i].amount, price)])

\* C12: the mints at or below the sale height and the mints above it
\* partition the mints: total_whitelist_minted is the floor-division sum
\* of the former, total_public_minted that of the latter, and the two add
\* up to total_market_minted
C12_Partition ==
    (project.alive /\ project.price > 0) =>
        /\ project.total_whitelist_minted
              = FloorSumOver(project.mints, project.price,
                             LAMBDA txn : txn.height <= project.sale_height)
        /\ project.total_public_minted
              = FloorSumOver(project.mints, project.price,
                             LAMBDA txn : txn.height > project.sale_height)
        /\ project.total_whitelist_minted + project.total_public_minted
              = project.total_market_minted

\* C13: total_whitelist_minted never exceeds total_market_minted, so that
\* total_public_minted is not negative, whichever of the presale and the
\* sale height is the greater
C13_WhitelistWithinMarket ==
    project.alive =>
        /\ project.total_whitelist_minted <= project.total_market_minted
        /\ project.total_public_minted >= 0

\* a Project with a mint, its sale height below its presale height
C13_Witness ==
    /\ project.alive
    /\ project.presale_height > project.sale_height
    /\ project.mints # <<>>
    /\ project.total_whitelist_minted < project.total_market_minted

\* the subsets and toggles the assignments cannot do without are all there
Configuration(all) ==
    /\ price_txs(all) # <<>>
    /\ supply_txs(all) # <<>>
    /\ metadata_txs(all) # <<>>
    /\ max_buy_txs(all) # <<>>
    /\ Enabling(pre_sell_mode_txs(all), "pre_sell_mode") # {}
    /\ Enabling(sell_mode_txs(all), "sell_mode") # {}

\* C14: when the price, supply, metadata or max-buy subset is empty, or no
\* presale or no sale toggle enables, the construction ends with an error
\* and no Project exists; a Project never holds a field without the
\* transactions that give it
C14_MissingIsAnError ==
    /\ project.alive => Configuration(View)
    /\ (last.op = "construct" /\ ~Configuration(View)) =>
          (last.error # "none" /\ ~project.alive)

\* a construction that ended with IndexError for want of a price update,
\* every block time being at hand
C14_Witness ==
    /\ last.op = "construct"
    /\ last.error = "IndexError"
    /\ ~project.alive
    /\ price_txs(View) = <<>>
    /\ supply_txs(View) # <<>>

\* C15: a check that ran to its end, or as far as the rename, found the
\* Project stale if and only if the cached list and the forced list differ
\* in length, the forced one being the longer or the shorter
C15_StaleIffCountsDiffer ==
    (/\ last.op \in {"construct", "check_update"}
     /\ last.error \in {"none", "FileNotFoundError"}
     /\ project.alive)
    => (last.stale <=> Len(View) # Len(Forced))

\* a check that found the Project stale, the forced list being the shorter
C15_Witness ==
    /\ last.op = "construct"
    /\ project.alive
    /\ last.error = "none"
    /\ last.stale
    /\ Len(Forced) < Len(View)

\* C16: when DATA_BASE.rename fails in a stale check_update (here: the pickle
\* is missing), the error reaches the caller and no field of the Project
\* has changed
C16_RenameFailureKeepsFields ==
    [][(/\ project.alive
        /\ last'.op = "check_update"
        /\ \/ last'.error = "FileNotFoundError"
           \/ last'.stale /\ ~file.exists)
       => (/\ last'.error = "FileNotFoundError"
           /\ last'.stale
           /\ project' = project
           /\ backups' = backups)]_vars

C16_Witness ==
    /\ last.op = "check_update"
    /\ last.error = "FileNotFoundError"
    /\ project.alive
    /\ ~file.exists
    /\ Len(Forced) > Len(View)

\* C17: whenever a Project exists (after its construction and after any
\* check_update, stale or not, failed or not) its stored fields agree with
\* one another: the whitelist supply is the sum of the slots of the stored
\* table, public supply = market - whitelist, supply = market + reserved,
\* public minted = market minted - whitelist minted, minted = market minted
\* + reserved minted, and the heights, the mints and the minted figures all
\* come from the one list the Explorer returns
C17_FieldsConsistent ==
    project.alive =>
        /\ project.total_whitelist_supply = SumValues(project.whitelists)
        /\ project.total_public_supply
              = project.total_market_supply - project.total_whitelist_supply
        /\ project.total_supply
              = project.total_market_supply + project.total_reserved_supply
        /\ project.total_public_minted
              = project.total_market_minted - project.total_whitelist_minted
        /\ project.total_minted
              = project.total_market_minted + project.total_reserved_minted
        /\ project.presale_height = _presale_height(pre_sell_mode_txs(View))
        /\ project.sale_height = _sale_height(sell_mode_txs(View))
        /\ project.mints = _mints(mint_txs(View))
        /\ project.total_market_minted
              = _total_market_minted(project.mints, project.price)
        /\ project.total_whitelist_minted
              = _total_whitelist_minted(project.mints, project.price,
                                        project.sale_height)
        /\ \E txn \in Range(price_txs(View)) :
              project.price = txn.message["update_price"].price.amount
        /\ \E txn \in Range(supply_txs(View)) :
              /\ project.total_market_supply = txn.message["update_supply"].market_supply
              /\ project.total_reserved_supply
                    = txn.message["update_supply"].reserved_supply

C17_Witness ==
    /\ last.op = "check_update"
    /\ last.stale
    /\ last.error = "none"
    /\ project.alive
    /\ project.total_whitelist_supply > Cardinality(DOMAIN project.whitelists)
    /\ project.total_market_supply > project.total_whitelist_supply

\* the pages of the query action that the dict d holds
PagesOf(d, action) == {api[2] : api \in {a \in DOMAIN d : a[1] = action}}

\* the transactions of the pages 1..n of the query action in the dict d
RECURSIVE Concat(_, _, _)
Concat(d, action, n) ==
    IF n = 0 THEN <<>>
    ELSE Concat(d, action, n - 1) \o d[<<action, n>>].result.txs

\* the pages of action in d are 1, 2, ... up to the first page with which
\* the number of transactions reaches the total_count of page 1
StopsAtTotal(d, action) ==
    PagesOf(d, action) # {} =>
        /\ PagesOf(d, action) = 1..Cardinality(PagesOf(d, action))
        /\ Len(Concat(d, action, Cardinality(PagesOf(d, action))))
              >= d[<<action, 1>>].result.total_count
        /\ Cardinality(PagesOf(d, action)) > 1 =>
              Len(Concat(d, action, Cardinality(PagesOf(d, action)) - 1))
                 < d[<<action, 1>>].result.total_count

\* C18: each query of txs() asks for the pages 1, 2, 3, ... and stops with
\* the page that brings the count to the total_count of page 1; the result
\* is the pages in the order returned; an empty execute query (total_count
\* zero) gives an empty result and no error
C18_PagesUntilTotal ==
    /\ txs([database |-> database, file |-> file], TRUE, ledger, ledger)
          = [error |-> "none", st |-> [database |-> database, file |-> file],
             txs |-> <<InstantiateTx>> \o ledger]
    /\ \A action \in {InstantiateAction, ExecuteAction} :
          StopsAtTotal(database, action) /\ StopsAtTotal(file.content, action)
    /\ project.alive =>
          View = Concat(database, InstantiateAction,
                        Cardinality(PagesOf(database, InstantiateAction)))
                 \o Concat(database, ExecuteAction,
                           Cardinality(PagesOf(database, ExecuteAction)))

C18_Witness ==
    /\ project.alive
    /\ last.op = "construct"
    /\ Cardinality(PagesOf(database, ExecuteAction)) > 1
    /\ Len(View) - 1 = database[<<ExecuteAction, 1>>].result.total_count
    /\ (Len(View) - 1) % PageSize # 0

\* an execute query with total_count zero has been fetched
C18_Empty ==
    /\ last.op = "construct"
    /\ ledger = <<>>
    /\ file.exists
    /\ PagesOf(file.content, ExecuteAction) = {1}

\* C19: a fetch whose later pages report another total_count than page 1
\* (the indexer's list changed between the requests of one fetch) ends in
\* an error: no Project(address) and no check_update() during which the
\* list changed ends normally
C19_InconsistentTotalIsAnError ==
    [][(/\ last'.op \in {"construct", "check_update"}
        /\ ledger' # ledger)
       => last'.error # "none"]_vars

\* C20: the list txs() returns holds at most one record per transaction
\* hash, also when the instantiate and the execute query both return the
\* transaction
C20_OneRecordPerHash ==
    project.alive =>
        \A i, j \in DOMAIN View : View[i].hash = View[j].hash => i = j

\* C21: a transaction whose message does not decode is left out of the
\* classified subsets and the reconstruction goes on without it: no
\* Project(address) ends in the decoding error
C21_UndecodableExcluded ==
    last.op = "construct" => last.error # "JSONDecodeError"

C27_SecondCheckIsCurrent ==
    [][(/\ last.op = "check_update"
        /\ last.stale
        /\ last.error = "none"
        /\ last'.op = "check_update"
        /\ ledger' = ledger)
       => (/\ ~last'.stale
           /\ last'.error = "none"
           /\ backups' = backups
           /\ project' = project)]_vars

\* C28: price and unit are those of one price-update transaction, and the
\* market and the reserved supply those of one supply-update transaction,
\* also when several updates share the greatest height
C28_OneUpdateTransaction ==
    project.alive =>
        /\ \E txn \in Range(price_txs(View)) :
              /\ project.price = txn.message["update_price"].price.amount
              /\ project.unit = txn.message["update_price"].price.denom
        /\ \E txn \in Range(supply_txs(View)) :
              /\ project.total_market_supply
                    = txn.message["update_supply"].market_supply
              /\ project.total_reserved_supply
                    = txn.message["update_supply"].reserved_supply

\* C30: a check_update that finds the cached and the forced count equal
\* changes nothing: the fields of the Project, the DataBase, the pickle and
\* the backups are as before
C30_CurrentChangesNothing ==
    [][(/\ project.alive
        /\ last'.op = "check_update"
        /\ Len(CachedTxs([database |-> database, file |-> file]))
              = Len(txs([database |-> database, file |-> file], TRUE,
                        ledger, ledger').txs))
       => (/\ ~last'.stale
           /\ last'.error = "none"
           /\ project' = project
           /\ database' = database
           /\ file' = file
           /\ backups' = backups)]_vars

C30_Witness ==
    /\ project.alive
    /\ last.op = "check_update"
    /\ ~last.stale
    /\ last.error = "none"
    /\ file.exists
    /\ Len(View) = Len(Forced)

\* C23: a stale check_update renames the pickle before anything fetched in
\* that refresh is written: the backup is the pickle as it was before the
\* forced fetch, the forced fetch leaves the DataBase as it was, and no
\* pickle is written after the rename
C23_BackupBeforeWrite ==
    [][(/\ project.alive
        /\ last'.op = "check_update"
        /\ last'.stale
        /\ file.exists)
       => (/\ backups' = backups \cup {file.content}
           /\ database' = database
           /\ ~file'.exists)]_vars

C23_Witness ==
    /\ project.alive
    /\ last.op = "check_update"
    /\ last.stale
    /\ last.error = "none"
    /\ ~file.exists
    /\ \E content \in backups :
          /\ content = database
          /\ Len(Forced) > Len(CachedTxs([database |-> content, file |-> NoFile]))

\* C25: reading timestamp gives the block time of the record's height also
\* when the block query is not yet in the DataBase: no Project(address) and
\* no check_update() ends in the TypeError that Txn._timestamp raises
C25_TimestampReadable ==
    last.op \in {"construct", "check_update"} => last.error # "TypeError"

\* the responses to page queries of transactions that the dict d holds
StoredPages(d) ==
    {api \in DOMAIN d : api[1] \in {InstantiateAction, ExecuteAction}}

\* C29: accumulating the pages in txs() changes no stored response: every
\* stored page holds the items of that page only (as many as the page size
\* and its total_count allow), and a further non-forced txs() returns as many
\* transactions as the one before and leaves the DataBase as it is
C29_StoredPagesKept ==
    /\ \A d \in {database, file.content} : \A api \in StoredPages(d) :
          Len(d[api].result.txs)
             = Min(PageSize,
                   d[api].result.total_count - (api[2] - 1) * PageSize)
    /\ project.alive =>
          /\ txs([database |-> database, file |-> file], FALSE, ledger, ledger).st
                = [database |-> database, file |-> file]
          /\ Len(txs(txs([database |-> database, file |-> file], FALSE,
                         ledger, ledger).st, FALSE, ledger, ledger).txs)
                = Len(View)

C29_Witness ==
    /\ project.alive
    /\ last.op = "check_update"
    /\ last.error = "none"
    /\ <<ExecuteAction, 2>> \in DOMAIN database
    /\ Len(database[<<ExecuteAction, 1>>].result.txs) = PageSize
    /\ Len(View) > PageSize + 1

(***************************************************************************)
(* SpecFetch: Explorer.txs followed one _txs call at a time, against a     *)
(* server that may answer anything: no JSON object members at all, an      *)
(* error without "result", or a page of any size with any total_count.     *)
(* The DataBase and the pickle are those of the Explorer; no Project is    *)
(* built.                                                                  *)
(***************************************************************************)
\* the largest total_count the server reports
MaxTotal == 2
\* the pages from MaxPage on share one request key in the model, and the
\* call counts them modulo 2 (call.odd)
MaxPage == 2

Answers ==
    {EmptyDict, [error |-> "Internal error"]}
    \cup {[result |-> [total_count |-> t, txs |-> SubSeq(BaseTxs, 1, n)]] :
            t \in {0, MaxTotal}, n \in 0..1}

InitFetch ==
    /\ ledger = <<>>
    /\ database = EmptyDict
    /\ file = NoFile
    /\ backups = {}
    /\ project = NoProject
    /\ last = Ended("none", "none", FALSE)
    /\ call = NoCall

\* what one _txs call leaves in call: whether it sent a request, whether
\* its api was a key of the DataBase, whether it returned what was stored
Fetching(c, api, force, r) ==
    [c EXCEPT !.force = force,
              !.requested = _txs_requests([database |-> database, file |-> file],
                                          api, force),
              !.stored = api \in DOMAIN database,
              !.same = IF api \in DOMAIN database THEN r.value = database[api]
                       ELSE FALSE]

Raised(c) == [c EXCEPT !.pc = "raised"]

\* lines 74-77 and 88-91 of Explorer.txs: the first page of a query; the
\* instantiate query reads total_count and txs without a default
FirstPage(action, force, r, result) ==
    /\ database' = r.st.database
    /\ file' = r.st.file
    /\ call' = IF action = InstantiateAction
                  /\ ("total_count" \notin DOMAIN result \/ "txs" \notin DOMAIN result)
               THEN Raised(Fetching([NoCall EXCEPT !.action = action, !.page = 1],
                                    <<action, 1>>, force, r))
               ELSE Fetching([NoCall EXCEPT
                                 !.pc = "loop", !.action = action, !.page = 1,
                                 !.txs_number = Len(Get(result, "txs", <<>>)),
                                 !.txs_total = Get(result, "total_count", 0),
                                 !.txs = "txs" \in DOMAIN result],
                             <<action, 1>>, force, r)
    /\ UNCHANGED <<ledger, backups, project, last>>

First(action, force, json) ==
    FirstPage(action, force,
              _txs_json([database |-> database, file |-> file], <<action, 1>>,
                        force, json),
              Get(_txs_json([database |-> database, file |-> file], <<action, 1>>,
                            force, json).value, "result", EmptyDict))

\* Explorer.txs(address, force) is called
Begin ==
    /\ call.pc # "loop"
    /\ \E force \in BOOLEAN : \E json \in Answers :
          First(InstantiateAction, force, json)

\* lines 78-84 and 92-98: one turn of a while loop
Turn(api, r, response) ==
    /\ database' = r.st.database
    /\ file' = r.st.file
    /\ call' = IF "txs" \notin DOMAIN response
               THEN Raised(Fetching(call, api, call.force, r))
               ELSE Fetching([call EXCEPT
                                 !.page = api[2],
                                 !.odd = IF call.page = api[2] THEN ~call.odd
                                         ELSE call.odd,
                                 !.txs_number = call.txs_number + Len(response.txs)],
                             api, call.force, r)
    /\ UNCHANGED <<ledger, backups, project, last>>

Iterate ==
    /\ call.pc = "loop"
    /\ call.txs_number < call.txs_total
    /\ \E json \in Answers :
          Turn(<<call.action, Min(call.page + 1, MaxPage)>>,
               _txs_json([database |-> database, file |-> file],
                         <<call.action, Min(call.page + 1, MaxPage)>>,
                         call.force, json),
               Get(_txs_json([database |-> database, file |-> file],
                             <<call.action, Min(call.page + 1, MaxPage)>>,
                             call.force, json).value, "result", EmptyDict))

\* a while loop ends: the execute query follows the instantiate query, and
\* lines 100-103 follow the execute query (None + list raises TypeError)
Leave ==
    /\ call.pc = "loop"
    /\ ~(call.txs_number < call.txs_total)
    /\ IF call.action = InstantiateAction
       THEN \E json \in Answers : First(ExecuteAction, call.force, json)
       ELSE /\ call' = [call EXCEPT !.pc = IF call.txs THEN "returned" ELSE "raised"]
            /\ UNCHANGED <<ledger, database, file, backups, project, last>>

NextFetch ==
    \/ Begin
    \/ Iterate
    \/ Leave

\* a call that has begun runs on: Python runs the loop to its end
SpecFetch ==
    InitFetch /\ [][NextFetch]_vars /\ WF_vars(Iterate) /\ WF_vars(Leave)

\* C22: a page fetch that is not forced and whose api is a key of the
\* DataBase sends no request and returns the stored response, whatever that
\* response is; a forced fetch always sends a request
C22_StoredMeansNoRequest ==
    call.pc # "idle" =>
        /\ (~call.force /\ call.stored) => (~call.requested /\ call.same)
        /\ call.force => call.requested

\* C26: every pagination loop of txs() comes to an end, whatever the server
\* answers: a call in a loop returns or raises
C26_LoopsTerminate ==
    (call.pc = "loop") ~> (call.pc \in {"returned", "raised"})

=============================================================================
